---------------------------- MODULE Spec2Model ----------------------------
(***************************************************************************)
(* A model of rust_ray_tracer's canvas module (src/src/canvas.rs): the     *)
(* Canvas grid, the PPMHeaderReader state machine, the row encoder with    *)
(* its line wrapping in PPMReader::new, and PPMReader's Read interface.    *)
(*                                                                         *)
(* Bytes are their ASCII codes.  A colour channel (an f32) is a record     *)
(* [k, m]: k = "fin" is the finite value m/1000, the other kinds are the   *)
(* f32 values that are no real number (NaN, the infinities) and -0.0.      *)
(***************************************************************************)
EXTENDS Integers, Sequences, FiniteSets, TLC

(***************************************************************************)
(* Bounds of the model.                                                    *)
(***************************************************************************)
MaxWidth == 12

MaxHeight == 3

MaxWrites == 1

MaxCoord == 2

MaxCanvasWrites == 3

MaxReadWidth == 3

MaxHeaderBuf == 16

(***************************************************************************)
(* Program constants.                                                      *)
(***************************************************************************)
\* PPMHeader::default: color_scale: 255
color_scale == 255

\* `if line_buffer.len() > 70` and `let mut nl_idx = 70`
LineLimit == 70

\* The buffer std's Read::read_to_end hands to read() when the Vec it fills
\* has no spare capacity (here: the empty inner_buf of PPMReader::new).
ProbeSize == 32

SP == 32

NL == 10

Min(a, b) == IF a < b THEN a ELSE b

(***************************************************************************)
(* Decimal formatting of an unsigned integer: format!("{}", n).            *)
(***************************************************************************)
RECURSIVE Digits(_)
Digits(n) == IF n < 10 THEN <<48 + n>> ELSE Digits(n \div 10) \o <<48 + (n % 10)>>

(***************************************************************************)
(* f32 channel values and the operations the encoder applies to them.      *)
(***************************************************************************)
Fin(m) == [k |-> "fin", m |-> m]

NaN == [k |-> "nan", m |-> 0]

PosInf == [k |-> "inf", m |-> 0]

NegInf == [k |-> "ninf", m |-> 0]

NegZero == [k |-> "nzero", m |-> 0]

\* self < other and self > other on f32: every comparison with NaN is false,
\* and -0.0 compares equal to 0.0.
Lt(a, b) ==
    /\ a.k # "nan" /\ b.k # "nan"
    /\ \/ a.k = "ninf" /\ b.k # "ninf"
       \/ b.k = "inf" /\ a.k # "inf"
       \/ a.k \in {"fin", "nzero"} /\ b.k \in {"fin", "nzero"} /\ a.m < b.m

\* f32::clamp(self, min, max): if self < min {min} else if self > max {max} else {self}
clamp(c, lo, hi) == IF Lt(c, lo) THEN lo ELSE IF Lt(hi, c) THEN hi ELSE c

\* value * (header.color_scale as f32)
MulScale(c) ==
    CASE c.k = "fin" -> Fin(c.m * color_scale)
      [] OTHER -> c

\* f32::round: to the nearest integer, half-way cases away from zero; the
\* sign is kept, so a negative value above -0.5 rounds to -0.0.
round(c) ==
    CASE c.k = "fin" /\ c.m >= 0 -> Fin(((2 * c.m + 1000) \div 2000) * 1000)
      [] c.k = "fin" /\ c.m < 0 ->
            LET q == (2 * (0 - c.m) + 1000) \div 2000
            IN IF q = 0 THEN NegZero ELSE Fin(0 - q * 1000)
      [] OTHER -> c

\* format!("{}", v) of an f32 holding an integral value: no fraction is
\* printed; NaN prints as NaN, an infinity as inf, -0.0 as -0.
Display(c) ==
    CASE c.k = "fin" /\ c.m >= 0 -> Digits(c.m \div 1000)
      [] c.k = "fin" /\ c.m < 0 -> <<45>> \o Digits((0 - c.m) \div 1000)
      [] c.k = "nan" -> <<78, 97, 78>>
      [] c.k = "inf" -> <<105, 110, 102>>
      [] c.k = "ninf" -> <<45, 105, 110, 102>>
      [] c.k = "nzero" -> <<45, 48>>

\* The value a channel is quantized to:
\* (value.clamp(0., 1.) * header.color_scale as f32).round()
Quantize(c) == round(MulScale(clamp(c, Fin(0), Fin(1000))))

\* format!("{} ", quantized): the token and its separator
ChannelToken(c) == Display(Quantize(c)) \o <<SP>>

\* One pixel: the r, g and b tokens, in this order.
PixelTokens(color) ==
    ChannelToken(color[1]) \o ChannelToken(color[2]) \o ChannelToken(color[3])

\* The raw line_buffer of one row (a chunk of canvas.width colours).
RECURSIVE RawRow(_)
RawRow(line_colors) ==
    IF line_colors = <<>> THEN <<>>
    ELSE PixelTokens(Head(line_colors)) \o RawRow(Tail(line_colors))

(***************************************************************************)
(* Line wrapping of one row (PPMReader::new, the block after the colours   *)
(* of a row were formatted).  Rust indexes from 0, TLA+ from 1: the byte   *)
(* at Rust index i is line_buffer[i + 1].                                  *)
(***************************************************************************)
SetByte(buf, idx, b) == [i \in 1..Len(buf) |-> IF i = idx + 1 THEN b ELSE buf[i]]

\* The loop over nl_idx.  It ends by replacing the space it found, by
\* get_mut returning None, or by `nl_idx -= 1` at nl_idx = 0: with overflow
\* checks (a debug build) that subtraction panics, without them nl_idx
\* wraps to usize::MAX and the next get_mut returns None.
RECURSIVE ScanNl(_, _, _)
ScanNl(line_buffer, nl_idx, overflow_checks) ==
    IF nl_idx >= Len(line_buffer)
    THEN [panic |-> FALSE, buf |-> line_buffer, nl_idx |-> -1]
    ELSE IF line_buffer[nl_idx + 1] = SP
    THEN [panic |-> FALSE, buf |-> SetByte(line_buffer, nl_idx, NL), nl_idx |-> nl_idx]
    ELSE IF nl_idx = 0
    THEN [panic |-> overflow_checks, buf |-> line_buffer, nl_idx |-> -1]
    ELSE ScanNl(line_buffer, nl_idx - 1, overflow_checks)

\* SplitLongLine breaking at column 70 whatever byte is there.
SplitLongLine_AtLimit(line_buffer, overflow_checks) ==
    IF Len(line_buffer) > LineLimit
    THEN [panic |-> FALSE, buf |-> SetByte(line_buffer, LineLimit, NL),
          nl_idx |-> LineLimit]
    ELSE [panic |-> FALSE, buf |-> line_buffer, nl_idx |-> -1]

\* SplitLongLine starting its scan at the first byte of the row.
SplitLongLine_FromStart(line_buffer, overflow_checks) ==
    IF Len(line_buffer) > LineLimit
    THEN ScanNl(line_buffer, 0, overflow_checks)
    ELSE [panic |-> FALSE, buf |-> line_buffer, nl_idx |-> -1]

\* SplitLongLine with half the limit.
SplitLongLine_Eager(line_buffer, overflow_checks) ==
    IF Len(line_buffer) > LineLimit \div 2
    THEN ScanNl(line_buffer, LineLimit \div 2, overflow_checks)
    ELSE [panic |-> FALSE, buf |-> line_buffer, nl_idx |-> -1]

\* SplitLongLine starting its scan one column after the limit.
SplitLongLine_Late(line_buffer, overflow_checks) ==
    IF Len(line_buffer) > LineLimit
    THEN ScanNl(line_buffer, LineLimit + 1, overflow_checks)
    ELSE [panic |-> FALSE, buf |-> line_buffer, nl_idx |-> -1]

\* if line_buffer.len() > 70 { let mut nl_idx = 70; loop { ... } }
SplitLongLine(line_buffer, overflow_checks) ==
    IF Len(line_buffer) > LineLimit
    THEN ScanNl(line_buffer, LineLimit, overflow_checks)
    ELSE [panic |-> FALSE, buf |-> line_buffer, nl_idx |-> -1]

\* TerminateRow leaving the trailing separator in place.
TerminateRow_Keep(line_buffer) == line_buffer

\* if let Some(last) = line_buffer.last_mut() { if *last == b' ' { *last = b'\n' } }
TerminateRow(line_buffer) ==
    IF line_buffer # <<>> /\ line_buffer[Len(line_buffer)] = SP
    THEN SetByte(line_buffer, Len(line_buffer) - 1, NL)
    ELSE line_buffer

\* One iteration of the loop over the rows, up to the store into chunk_buffer.
EncodeRow(line_colors, overflow_checks) ==
    LET raw == RawRow(line_colors)
        split == SplitLongLine(raw, overflow_checks)
    IN [panic |-> split.panic, raw |-> raw, nl_idx |-> split.nl_idx,
        buf |-> TerminateRow(split.buf)]

(***************************************************************************)
(* PPMHeader and PPMHeaderReader.                                          *)
(***************************************************************************)
States == <<"Magic", "Width", "Height", "ColorScale", "Finished">>

\* PPMHeader { height, width, ..Default::default() }
PPMHeader(width, height) ==
    [magic |-> <<80, 51, NL>>, width |-> width, height |-> height,
     color_scale |-> color_scale]

\* PPMHeaderReader::new
PPMHeaderReader_new(header) == [state |-> "Magic", written |-> 0, header |-> header]

MagicField(header) == header.magic

\* WidthField without its separator.
WidthField_NoSeparator(header) == Digits(header.width)

\* format!("{} ", width)
WidthField(header) == Digits(header.width) \o <<SP>>

\* format!("{}\n", height)
HeightField(header) == Digits(header.height) \o <<NL>>

\* format!("{}\n", color_scale)
ColorScaleField(header) == Digits(header.color_scale) \o <<NL>>

\* The bytes the match arm of `state` copies from and the state it sets.
FieldOf(state, header) ==
    CASE state = "Magic" -> MagicField(header)
      [] state = "Width" -> WidthField(header)
      [] state = "Height" -> HeightField(header)
      [] state = "ColorScale" -> ColorScaleField(header)

StateAfter(state) ==
    CASE state = "Magic" -> "Width"
      [] state = "Width" -> "Height"
      [] state = "Height" -> "ColorScale"
      [] state = "ColorScale" -> "Finished"

\* copy_nonoverlapping(src, dst, to_write) with dst = buf[written..]
CopyInto(buf, written, src, to_write) ==
    [i \in 1..Len(buf) |->
        IF i > written /\ i <= written + to_write THEN src[i - written] ELSE buf[i]]

\* IsFinished answering no in every state.
IsFinished_Never(self) == FALSE

\* matches!(self.state, PPMHeaderReaderState::Finished)
IsFinished(self) == self.state = "Finished"

\* ToWrite taking the whole field, whatever room is left.
ToWrite_Whole(remaining, src) == Len(src)

\* usize::min(remaining, src_buf.len())
ToWrite(remaining, src) == Min(remaining, Len(src))

\* impl Read for PPMHeaderReader: one call of read(buf), its recursive calls
\* included.  `buf.len() - self.written` with written > buf.len() panics in
\* a debug build; in a release build it wraps and the slice buf[written..]
\* panics: a panic either way.  steps lists what the call and its recursive
\* calls did, in order: the state each set, the offset `written` and the
\* number of bytes `to_write` of its copy, and buf.len().
RECURSIVE PPMHeaderReader_read(_, _)
PPMHeaderReader_read(self, buf) ==
    IF IsFinished(self)
    THEN [self |-> self, buf |-> buf, ret |-> 0, panic |-> FALSE, steps |-> <<>>]
    ELSE IF self.written > Len(buf)
    THEN [self |-> self, buf |-> buf, ret |-> 0, panic |-> TRUE, steps |-> <<>>]
    ELSE IF Len(buf) - self.written = 0
    THEN [self |-> [self EXCEPT !.state = "Finished"], buf |-> buf, ret |-> 0,
          panic |-> FALSE,
          steps |-> <<[state |-> "Finished", at |-> self.written, to_write |-> 0,
                       len |-> Len(buf)]>>]
    ELSE IF self.state = "Finished"
    THEN [self |-> self, buf |-> buf, ret |-> 0, panic |-> FALSE, steps |-> <<>>]
    ELSE LET remaining == Len(buf) - self.written
             src == FieldOf(self.state, self.header)
             to_write == ToWrite(remaining, src)
             buf2 == CopyInto(buf, self.written, src, to_write)
             self2 == [self EXCEPT !.state = StateAfter(self.state),
                                   !.written = self.written + to_write]
             step == [state |-> self2.state, at |-> self.written,
                      to_write |-> to_write, len |-> Len(buf)]
         IN IF self.state = "ColorScale"
            THEN [self |-> self2, buf |-> buf2, ret |-> self2.written,
                  panic |-> FALSE, steps |-> <<step>>]
            ELSE LET rest == PPMHeaderReader_read(self2, buf2)
                 IN [rest EXCEPT !.steps = <<step>> \o @]

\* A caller's buffer of n bytes before a read: zero-filled.
FreshBuf(n) == [i \in 1..n |-> 0]

\* Read::read_to_end on a PPMHeaderReader, as PPMReader::new calls it on the
\* empty inner_buf: read() with a ProbeSize buffer, the bytes it reports
\* appended, until a read reports 0.
RECURSIVE read_to_end(_, _)
read_to_end(reader, vec) ==
    LET r == PPMHeaderReader_read(reader, FreshBuf(ProbeSize))
    IN IF r.panic THEN [panic |-> TRUE, vec |-> vec]
       ELSE IF r.ret = 0 THEN [panic |-> FALSE, vec |-> vec]
       ELSE read_to_end(r.self, vec \o SubSeq(r.buf, 1, r.ret))

(***************************************************************************)
(* PPMReader::new.                                                         *)
(***************************************************************************)
\* canvas.data.as_ref().chunks(canvas.width): the number of chunks and the
\* chunk with 0-based index chunk_idx.
NumChunks(canvas) == (Len(canvas.data) + canvas.width - 1) \div canvas.width

Chunk(canvas, chunk_idx) ==
    SubSeq(canvas.data, chunk_idx * canvas.width + 1,
           Min((chunk_idx + 1) * canvas.width, Len(canvas.data)))

RECURSIVE Flatten(_)
Flatten(bufs) == IF bufs = <<>> THEN <<>> ELSE Head(bufs) \o Flatten(Tail(bufs))

RECURSIVE SumLen(_)
SumLen(bufs) == IF bufs = <<>> THEN 0 ELSE Len(Head(bufs)) + SumLen(Tail(bufs))

\* The header PPMReader::new reads into the empty inner_buf.
HeaderBytes(canvas) ==
    read_to_end(PPMHeaderReader_new(PPMHeader(canvas.width, canvas.height)), <<>>)

\* The rows the loop encodes before it ends or panics: chunk_buffer has
\* canvas.width entries, so the store chunk_buffer[chunk_idx] panics at
\* chunk_idx = canvas.width.
RowsEncoded(canvas, overflow_checks) ==
    [y \in 1..Min(NumChunks(canvas), canvas.width) |->
        EncodeRow(Chunk(canvas, y - 1), overflow_checks)]

\* PPMReader::new(canvas).  status "panic" is a call that never returns a
\* PPMReader; inner_buf is then the local vector as the panic finds it (the
\* rows are appended to it only after the loop).
PPMReader_new(canvas, overflow_checks) ==
    LET hdr == HeaderBytes(canvas)
        rows == RowsEncoded(canvas, overflow_checks)
        row_panic == \E y \in DOMAIN rows : rows[y].panic
        panic == \/ hdr.panic
                 \/ canvas.width = 0
                 \/ row_panic
                 \/ NumChunks(canvas) > canvas.width
    IN IF hdr.panic \/ canvas.width = 0
       THEN [status |-> "panic", inner_buf |-> hdr.vec, read |-> 0,
             written |-> Len(hdr.vec)]
       ELSE [status |-> IF panic THEN "panic" ELSE "ok",
             inner_buf |-> IF panic THEN hdr.vec
                           ELSE hdr.vec \o Flatten([y \in DOMAIN rows |-> rows[y].buf]),
             read |-> 0,
             written |-> Len(hdr.vec) + SumLen([y \in DOMAIN rows |-> rows[y].raw])]

\* PPMReader_read advancing the cursor by buf.len() whatever it copied.
PPMReader_read_Overrun(self, buf) ==
    IF self.read >= Len(self.inner_buf)
    THEN [self |-> self, buf |-> buf, ret |-> 0]
    ELSE LET cap == Min(Len(self.inner_buf), Len(buf))
             copied == Min(Len(self.inner_buf) - self.read, Len(buf))
         IN [self |-> [self EXCEPT !.read = self.read + Len(buf)],
             buf |-> [i \in 1..Len(buf) |->
                         IF i <= copied THEN self.inner_buf[self.read + i] ELSE buf[i]],
             ret |-> cap]

\* impl Read for PPMReader: one call of read(buf).
PPMReader_read(self, buf) ==
    IF self.read >= Len(self.inner_buf)
    THEN [self |-> self, buf |-> buf, ret |-> 0]
    ELSE LET cap == Min(Len(self.inner_buf), Len(buf))
             copied == Min(Len(self.inner_buf) - self.read, Len(buf))
         IN [self |-> [self EXCEPT !.read = self.read + copied],
             buf |-> [i \in 1..Len(buf) |->
                         IF i <= copied THEN self.inner_buf[self.read + i] ELSE buf[i]],
             ret |-> cap]

(***************************************************************************)
(* Canvas.                                                                 *)
(***************************************************************************)
Black == <<Fin(0), Fin(0), Fin(0)>>

NoCanvas == [live |-> FALSE, width |-> 0, height |-> 0, data |-> <<>>]

\* Canvas_new allocating one row only.
Canvas_new_OneRow(width, height) ==
    [live |-> TRUE, width |-> width, height |-> height,
     data |-> [i \in 1..width |-> Black]]

\* Canvas::new(width, height): width * height cells, all Color(Vert3::ZERO).
\* No check of width or height.
Canvas_new(width, height) ==
    [live |-> TRUE, width |-> width, height |-> height,
     data |-> [i \in 1..(width * height) |-> Black]]

\* The two debug_assert!s of write_pixel and pixel_at.  `self.width - 1`
\* with width = 0 overflows, which panics where overflow is checked.
DebugAssertsPass(canvas, pixel_x, pixel_y) ==
    /\ canvas.width >= 1 /\ canvas.height >= 1
    /\ pixel_x <= canvas.width - 1
    /\ pixel_y <= canvas.height - 1

\* pixel_x < width and pixel_y < height: the coordinates name a cell.
InRange(canvas, pixel_x, pixel_y) ==
    pixel_x < canvas.width /\ pixel_y < canvas.height

\* Whether the call panics: by a debug assertion where they are compiled in,
\* or by the slice index being out of bounds.
PixelPanics(canvas, pixel_x, pixel_y, debug) ==
    \/ debug /\ ~DebugAssertsPass(canvas, pixel_x, pixel_y)
    \/ pixel_y * canvas.width + pixel_x >= Len(canvas.data)

\* Canvas_write_pixel writing the first cell of the canvas as well.
Canvas_write_pixel_Spill(canvas, pixel_x, pixel_y, pixel_color) ==
    [canvas EXCEPT !.data =
        [i \in 1..Len(canvas.data) |->
            IF i = 1 \/ i = pixel_y * canvas.width + pixel_x + 1 THEN pixel_color
            ELSE canvas.data[i]]]

\* Canvas_write_pixel leaving the cell as it was.
Canvas_write_pixel_Discard(canvas, pixel_x, pixel_y, pixel_color) == canvas

\* self.data[pixel_y * self.width + pixel_x] = pixel_color
Canvas_write_pixel(canvas, pixel_x, pixel_y, pixel_color) ==
    [canvas EXCEPT !.data[pixel_y * canvas.width + pixel_x + 1] = pixel_color]

\* &self.data[pixel_y * self.width + pixel_x]
Canvas_pixel_at(canvas, pixel_x, pixel_y) ==
    canvas.data[pixel_y * canvas.width + pixel_x + 1]

(***************************************************************************)
(* The state.                                                              *)
(*   debug_assertions  the build profile: debug assertions and overflow    *)
(*                     checks compiled in (dev) or not (release)           *)
(*   canvas            the Canvas, once created                            *)
(*   call              the last Canvas call and its outcome, with the      *)
(*                     canvas before it; clean and last record the calls   *)
(*                     so far: whether every write_pixel was in range,     *)
(*                     and, as long as they were, the colour of the latest *)
(*                     write_pixel to each cell                            *)
(*   writes            the number of write_pixel calls made                *)
(*   hreader           a PPMHeaderReader                                   *)
(*   hcall             the last read() on it: buffer after the call,       *)
(*                     value returned                                      *)
(*   hout              the bytes its reads reported, concatenated          *)
(*   ppm               the PPMReader (or the panic of PPMReader::new)      *)
(*   rcall             the last read() on it                               *)
(*   rout              the bytes its reads reported, concatenated          *)
(***************************************************************************)
VARIABLES debug_assertions, canvas, call, writes, hreader, hcall, hout, ppm, rcall, rout

vars == <<debug_assertions, canvas, call, writes, hreader, hcall, hout, ppm, rcall, rout>>

NoCall == [op |-> "none", x |-> 0, y |-> 0, color |-> Black, panic |-> FALSE,
           ret |-> Black, before |-> NoCanvas, last |-> <<>>, clean |-> TRUE]

\* empty: some read so far was handed a buffer of no bytes; steps: what
\* the last read did; visited: the states the reads so far have set, in order
NoRead == [op |-> "none", len |-> 0, buf |-> <<>>, ret |-> 0, panic |-> FALSE,
           empty |-> FALSE, steps |-> <<>>, visited |-> <<>>]

NoPPM == [status |-> "none", inner_buf |-> <<>>, read |-> 0, written |-> 0]

NoHeaderReader == PPMHeaderReader_new(PPMHeader(0, 0))

(***************************************************************************)
(* Colours the canvases of the model hold.                                 *)
(***************************************************************************)
White == <<Fin(1000), Fin(1000), Fin(1000)>>

\* Color(Vert3([1., 0.8, 0.6])) of splitting_long_lines_in_ppm_files
Warm == <<Fin(1000), Fin(800), Fin(600)>>

\* The three colours of constructing_the_ppm_pixel_data
TestA == <<Fin(1500), Fin(0), Fin(0)>>

TestB == <<Fin(0), Fin(500), Fin(0)>>

TestC == <<Fin(-500), Fin(0), Fin(1000)>>

\* Channels that are no real number, as Color's arithmetic can produce them
Odd == <<NaN, NegZero, PosInf>>

Dim == <<Fin(40), Fin(100), NegInf>>

\* Color(Vert3::X), the colour the projectile example writes
Red == <<Fin(1000), Fin(0), Fin(0)>>

Mark == <<Fin(500), Fin(1500), Fin(-1)>>

\* A canvas as Canvas::new and a write_pixel of every cell leave it:
\* the colours of pat repeated over the cells in row-major order.
Filled(width, height, pat) ==
    [live |-> TRUE, width |-> width, height |-> height,
     data |-> [i \in 1..(width * height) |-> pat[((i - 1) % Len(pat)) + 1]]]

Patterns == {<<Black>>, <<White>>, <<Warm>>, <<TestA, Black, TestB, TestC>>, <<Odd, Dim>>}

ReadPatterns == {<<Black>>, <<TestA, Warm>>, <<Odd, Dim>>}

HeaderSizes == {1, 5, 10, 100}

\* Buffer sizes of the reads on a PPMReader
BufLens == {1, 3, ProbeSize}

(***************************************************************************)
(* Canvas operations.                                                      *)
(***************************************************************************)
Idle == /\ hreader' = hreader /\ hcall' = hcall /\ hout' = hout
        /\ ppm' = ppm /\ rcall' = rcall /\ rout' = rout

\* let c = Canvas::new(width, height)
CanvasNew(width, height) ==
    /\ ~canvas.live
    /\ canvas' = Canvas_new(width, height)
    /\ call' = [NoCall EXCEPT !.op = "new", !.x = width, !.y = height]
    /\ UNCHANGED <<debug_assertions, writes>>
    /\ Idle

\* The record of the latest write to each cell, the cell at (pixel_x,
\* pixel_y) now holding pixel_color: one entry per cell in row-major order,
\* <<>> for a cell never written.
Noted(self, last, pixel_x, pixel_y, pixel_color) ==
    [i \in 1..(self.width * self.height) |->
        IF i = pixel_y * self.width + pixel_x + 1 THEN pixel_color
        ELSE IF i \in DOMAIN last THEN last[i] ELSE <<>>]

\* c.write_pixel((pixel_x, pixel_y), pixel_color).  A PPMReader borrows the
\* canvas, so there is no write while one exists; a panic ends the program.
WritePixel(pixel_x, pixel_y, pixel_color) ==
    /\ canvas.live /\ ~call.panic /\ ppm.status = "none"
    /\ LET panics == PixelPanics(canvas, pixel_x, pixel_y, debug_assertions)
       IN /\ canvas' = IF panics THEN canvas
                       ELSE Canvas_write_pixel(canvas, pixel_x, pixel_y, pixel_color)
          /\ call' = [op |-> "write_pixel", x |-> pixel_x, y |-> pixel_y,
                      color |-> pixel_color, panic |-> panics, ret |-> Black,
                      before |-> canvas,
                      last |-> IF call.clean /\ InRange(canvas, pixel_x, pixel_y)
                               THEN Noted(canvas, call.last, pixel_x, pixel_y,
                                          pixel_color)
                               ELSE <<>>,
                      clean |-> call.clean /\ InRange(canvas, pixel_x, pixel_y)]
    /\ writes' = writes + 1
    /\ UNCHANGED debug_assertions
    /\ Idle

\* c.pixel_at((pixel_x, pixel_y))
PixelAt(pixel_x, pixel_y) ==
    /\ canvas.live /\ ~call.panic /\ ppm.status = "none"
    /\ LET panics == PixelPanics(canvas, pixel_x, pixel_y, debug_assertions)
       IN call' = [op |-> "pixel_at", x |-> pixel_x, y |-> pixel_y,
                   color |-> Black, panic |-> panics,
                   ret |-> IF panics THEN Black
                           ELSE Canvas_pixel_at(canvas, pixel_x, pixel_y),
                   before |-> canvas, last |-> call.last, clean |-> call.clean]
    /\ UNCHANGED <<debug_assertions, canvas, writes>>
    /\ Idle

(***************************************************************************)
(* PPMReader operations.                                                   *)
(***************************************************************************)
\* PPMReader::new(&c)
Encode ==
    /\ canvas.live /\ ~call.panic /\ ppm.status = "none"
    /\ ppm' = PPMReader_new(canvas, debug_assertions)
    /\ UNCHANGED <<debug_assertions, canvas, call, writes, hreader, hcall, hout,
                   rcall, rout>>

\* ppm_reader.read(&mut buf) with a zero-filled buf of len bytes
ReaderRead(len) ==
    /\ ppm.status = "ok"
    /\ LET r == PPMReader_read(ppm, FreshBuf(len))
       IN /\ ppm' = r.self
          /\ rcall' = [op |-> "read", len |-> len, buf |-> r.buf, ret |-> r.ret,
                       panic |-> FALSE, empty |-> rcall.empty \/ len = 0,
                       steps |-> <<>>, visited |-> <<>>]
          /\ rout' = rout \o SubSeq(r.buf, 1, r.ret)
    /\ UNCHANGED <<debug_assertions, canvas, call, writes, hreader, hcall, hout>>

(***************************************************************************)
(* PPMHeaderReader operations.                                             *)
(***************************************************************************)
\* header_reader.read(&mut buf) with a zero-filled buf of len bytes
HeaderRead(len) ==
    /\ ~hcall.panic
    /\ LET r == PPMHeaderReader_read(hreader, FreshBuf(len))
       IN /\ hreader' = r.self
          /\ hcall' = [op |-> "read", len |-> len, buf |-> r.buf, ret |-> r.ret,
                       panic |-> r.panic, empty |-> hcall.empty \/ len = 0,
                       steps |-> r.steps,
                       visited |-> hcall.visited
                                     \o [i \in 1..Len(r.steps) |-> r.steps[i].state]]
          /\ hout' = IF r.panic THEN hout ELSE hout \o SubSeq(r.buf, 1, r.ret)
    /\ UNCHANGED <<debug_assertions, canvas, call, writes, ppm, rcall, rout>>

(***************************************************************************)
(* Spec: the encoder.  A canvas of every size up to MaxWidth x MaxHeight,  *)
(* filled with one of Patterns, takes up to MaxWrites more writes, each to *)
(* a cell of its first or last column and first or last row, and is        *)
(* encoded by PPMReader::new.                                              *)
(***************************************************************************)
Start == /\ debug_assertions \in BOOLEAN
         /\ call = NoCall /\ writes = 0
         /\ hcall = NoRead /\ hout = <<>>
         /\ ppm = NoPPM /\ rcall = NoRead /\ rout = <<>>

Init ==
    /\ Start /\ hreader = NoHeaderReader
    /\ canvas \in {Filled(w, h, pat) : w \in 0..MaxWidth, h \in 0..MaxHeight,
                                       pat \in Patterns}

Next ==
    \/ /\ writes < MaxWrites
       /\ canvas.width >= 1 /\ canvas.height >= 1
       /\ \E x \in {0, canvas.width - 1}, y \in {0, canvas.height - 1} :
             WritePixel(x, y, Mark)
    \/ Encode

Spec == Init /\ [][Next]_vars

(***************************************************************************)
(* SpecRead: a PPMReader read with buffers of any of BufLens.              *)
(***************************************************************************)
InitRead ==
    /\ Start /\ hreader = NoHeaderReader
    /\ canvas \in {Filled(w, h, pat) : w \in 1..MaxReadWidth, h \in 1..MaxReadWidth,
                                       pat \in ReadPatterns}

NextRead ==
    \/ Encode
    \/ \E len \in BufLens : ReaderRead(len)

SpecRead == InitRead /\ [][NextRead]_vars

(***************************************************************************)
(* SpecCanvas: Canvas::new, write_pixel and pixel_at with any arguments up *)
(* to MaxCoord, in either build profile,                                   *)
(***************************************************************************)
InitCanvas == Start /\ hreader = NoHeaderReader /\ canvas = NoCanvas

NextCanvas ==
    \/ \E w \in 0..MaxCoord, h \in 0..MaxCoord : CanvasNew(w, h)
    \/ /\ writes < MaxCanvasWrites
       /\ \E x \in 0..MaxCoord, y \in 0..MaxCoord, c \in {Red, TestC} :
             WritePixel(x, y, c)
    \/ \E x \in 0..MaxCoord, y \in 0..MaxCoord : PixelAt(x, y)

SpecCanvas == InitCanvas /\ [][NextCanvas]_vars

(***************************************************************************)
(* SpecHeader: a PPMHeaderReader created by new and read with buffers of   *)
(* any size up to MaxHeaderBuf.                                            *)
(***************************************************************************)
InitHeader ==
    /\ Start /\ canvas = NoCanvas
    /\ \E w \in HeaderSizes, h \in HeaderSizes :
          hreader = PPMHeaderReader_new(PPMHeader(w, h))

NextHeader == \E len \in 0..MaxHeaderBuf : HeaderRead(len)

SpecHeader == InitHeader /\ [][NextHeader]_vars

(***************************************************************************)
(* Reading the encoded output back, for the properties below.              *)
(***************************************************************************)
IsDigit(b) == b \in 48..57

\* A decimal number without sign: digits only, no leading zero but in "0".
IsDecimal(tok) ==
    /\ tok # <<>>
    /\ \A i \in 1..Len(tok) : IsDigit(tok[i])
    /\ Len(tok) > 1 => tok[1] # 48

RECURSIVE Value(_)
Value(tok) ==
    IF tok = <<>> THEN 0
    ELSE 10 * Value(SubSeq(tok, 1, Len(tok) - 1)) + (tok[Len(tok)] - 48)

\* The first byte of buf from byte i on that is one of seps (Len(buf) + 1
\* when there is none).
NextSep(buf, i, seps) ==
    IF \E j \in i..Len(buf) : buf[j] \in seps
    THEN CHOOSE j \in i..Len(buf) :
            /\ buf[j] \in seps
            /\ \A k \in i..(j - 1) : buf[k] \notin seps
    ELSE Len(buf) + 1

\* The pieces of buf from byte i on, each ended by one of seps.
RECURSIVE Pieces(_, _, _)
Pieces(buf, i, seps) ==
    IF i > Len(buf) THEN <<>>
    ELSE LET j == NextSep(buf, i, seps)
         IN <<SubSeq(buf, i, j - 1)>> \o Pieces(buf, j + 1, seps)

Tokens(buf) == Pieces(buf, 1, {SP, NL})

Lines(buf) == Pieces(buf, 1, {NL})

\* The raw rows of the canvas, one after the other, and the ends of the
\* rows in it: RowEnds[y + 1] is the number of bytes of rows 0 .. y.
RawBody == Flatten([i \in 1..Len(canvas.data) |-> PixelTokens(canvas.data[i])])

RowEnds ==
    LET lens == [i \in 1..Len(canvas.data) |-> Len(PixelTokens(canvas.data[i]))]
        sum[i \in 0..Len(canvas.data)] == IF i = 0 THEN 0 ELSE sum[i - 1] + lens[i]
    IN [y \in 1..canvas.height |-> sum[y * canvas.width]]

\* What inner_buf holds after its first n bytes.
After(n) == SubSeq(ppm.inner_buf, n + 1, Len(ppm.inner_buf))

\* The pixel data of inner_buf: its last Len(RawBody) bytes.
Body == After(Len(ppm.inner_buf) - Len(RawBody))

Encoded == ppm.status = "ok"

Sized == canvas.live /\ canvas.width >= 1 /\ canvas.height >= 1

\* buf starts with the header of w x h, w written with dw digits and h with dh.
IsHeaderOf(buf, w, h, dw, dh) ==
    /\ Len(buf) >= dw + dh + 9
    /\ SubSeq(buf, 1, 3) = <<80, 51, NL>>
    /\ IsDecimal(SubSeq(buf, 4, 3 + dw)) /\ Value(SubSeq(buf, 4, 3 + dw)) = w
    /\ buf[4 + dw] = SP
    /\ IsDecimal(SubSeq(buf, 5 + dw, 4 + dw + dh))
    /\ Value(SubSeq(buf, 5 + dw, 4 + dw + dh)) = h
    /\ SubSeq(buf, 5 + dw + dh, 9 + dw + dh) = <<NL, 50, 53, 53, NL>>

\* buf with its newlines replaced by spaces.
Unwrapped(buf) == [i \in 1..Len(buf) |-> IF buf[i] = NL THEN SP ELSE buf[i]]

\* The header of hreader, whole.
FullHeader == MagicField(hreader.header) \o WidthField(hreader.header)
                \o HeightField(hreader.header) \o ColorScaleField(hreader.header)

(***************************************************************************)
(* C1.  For a canvas of w x h, w, h >= 1, the encoder starts the output    *)
(* with exactly P3, newline, the decimal digits of w, a space, the decimal *)
(* digits of h, newline, 255, newline; the pixel data follows at once.     *)
(***************************************************************************)
C1_HeaderExact ==
    (ppm.status # "none" /\ Sized) =>
        \E dw \in 1..4, dh \in 1..4 :
            /\ IsHeaderOf(ppm.inner_buf, canvas.width, canvas.height, dw, dh)
            /\ Encoded => After(dw + dh + 9) = Body
            /\ ~Encoded => Len(ppm.inner_buf) = dw + dh + 9

C1_Witness ==
    /\ Encoded /\ canvas.width >= 10 /\ canvas.height >= 2
    /\ SubSeq(ppm.inner_buf, 1, 12) = <<80, 51, NL, 49, 48, SP, 50, NL, 50, 53, 53, NL>>

(***************************************************************************)
(* C2.  For every canvas with w, h >= 1, PPMReader::new completes and the  *)
(* pixel data is the h rows in increasing row index, row y holding the     *)
(* quantized r, g, b values of pixels (0,y) .. (w-1,y) from left to right. *)
(***************************************************************************)
C2_RowsInOrder ==
    (ppm.status # "none" /\ Sized) =>
        /\ Encoded
        /\ LET body == Body
               ends == RowEnds
           IN /\ Unwrapped(body) = RawBody
              /\ \A y \in 1..canvas.height : body[ends[y]] = NL

(***************************************************************************)
(* C3.  Every channel value c is emitted as the decimal integer            *)
(* round-half-away-from-zero(255 * clamp(c, 0, 1)): a number in 0..255,    *)
(* 0 for every c below 0, 255 for every c above 1, 128 for c = 0.5.        *)
(***************************************************************************)
C3_Quantized ==
    Encoded =>
        LET toks == Tokens(Body)
        IN /\ Len(toks) = 3 * Len(canvas.data)
           /\ \A i \in 1..Len(canvas.data), j \in 1..3 :
                 LET tok == toks[3 * (i - 1) + j]
                     c == canvas.data[i][j]
                     v == Value(tok)
                 IN /\ IsDecimal(tok)
                    /\ v \in 0..255
                    /\ Lt(c, Fin(0)) => v = 0
                    /\ Lt(Fin(1000), c) => v = 255
                    /\ c = Fin(500) => v = 128
                    /\ (c.k = "fin" /\ c.m \in 0..1000) =>
                          /\ 255 * c.m - 500 < 1000 * v
                          /\ 1000 * v <= 255 * c.m + 500

(***************************************************************************)
(* C4.  No line of the encoded pixel data is longer than 70 characters,    *)
(* the newline not counted, whatever the width of the canvas.              *)
(***************************************************************************)
C4_LinesFit ==
    Encoded =>
        LET lines == Lines(Body)
        IN \A k \in 1..Len(lines) : Len(lines[k]) <= LineLimit

(***************************************************************************)
(* C5.  Reads with buffers of any size >= 1 deliver inner_buf exactly once *)
(* and in order: each call returns the number of bytes it placed in the    *)
(* buffer, the bytes reported so far are the bytes of inner_buf read so    *)
(* far, and a read at the end of inner_buf returns 0.                      *)
(***************************************************************************)
C5_ReadDelivers ==
    (rcall.op = "read" /\ ~rcall.empty) =>
        /\ rout = SubSeq(ppm.inner_buf, 1, ppm.read)
        /\ rcall.ret <= rcall.len
        /\ rcall.ret = 0 => ppm.read = Len(ppm.inner_buf)

(***************************************************************************)
(* C6.  PPMHeaderReader is resumable: read with buffers of any size >= 1,  *)
(* the bytes its calls report are, concatenated, the header from its first *)
(* byte on, and a call returns 0 only when the whole header was reported.  *)
(***************************************************************************)
C6_Resumable ==
    (hcall.op = "read" /\ ~hcall.empty /\ ~hcall.panic) =>
        /\ Len(hout) <= Len(FullHeader)
        /\ hout = SubSeq(FullHeader, 1, Len(hout))
        /\ hcall.ret = 0 => hout = FullHeader

(***************************************************************************)
(* C7.  Line wrapping only turns separator spaces into newlines: the       *)
(* encoded rows with their newlines replaced by spaces are the raw rows    *)
(* byte for byte, so no token is split, altered or dropped.                *)
(***************************************************************************)
C7_WrapOnlySpaces ==
    Encoded =>
        LET raw == RawBody
            body == Body
        IN /\ Len(body) = Len(raw)
           /\ \A i \in 1..Len(raw) :
                 \/ body[i] = raw[i]
                 \/ body[i] = NL /\ raw[i] = SP
           /\ \A i \in 1..Len(raw) : raw[i] # NL

C7_Witness ==
    /\ Encoded /\ canvas.width = 10 /\ canvas.height = 2
    /\ LET body == Body
       IN /\ Len(body) = 240
          /\ body[68] = NL /\ body[120] = NL /\ body[188] = NL /\ body[240] = NL

(***************************************************************************)
(* C8.  The encoded buffer of a canvas with w, h >= 1 ends with a newline, *)
(* and so do the bytes of every row: no row ends with a space and no blank *)
(* line follows the last row.                                              *)
(***************************************************************************)
C8_NewlineTerminated ==
    (Encoded /\ Sized) =>
        LET n == Len(ppm.inner_buf)
            body == Body
            ends == RowEnds
        IN /\ ppm.inner_buf[n] = NL
           /\ ppm.inner_buf[n - 1] # NL
           /\ \A y \in 1..canvas.height :
                 /\ body[ends[y]] = NL
                 /\ body[ends[y] - 1] \notin {NL, SP}

C8_Witness ==
    /\ Encoded /\ canvas.width >= 7 /\ canvas.height >= 2
    /\ Len(ppm.inner_buf) > canvas.height * LineLimit

(***************************************************************************)
(* C9.  Canvas::new rejects a zero-area canvas: no Canvas has width 0 or   *)
(* height 0.                                                               *)
(***************************************************************************)
C9_NoZeroArea == canvas.live => (canvas.width >= 1 /\ canvas.height >= 1)

(***************************************************************************)
(* C10.  write_pixel and pixel_at with x >= width or y >= height fail      *)
(* fast: the call panics, overwrites no cell and returns no colour, also   *)
(* when y * width + x is smaller than width * height.                      *)
(***************************************************************************)
C10_OutOfRangeFailsFast ==
    (/\ call.op \in {"write_pixel", "pixel_at"}
     /\ (call.x >= call.before.width \/ call.y >= call.before.height)) =>
        /\ call.panic
        /\ canvas = call.before


(***************************************************************************)
(* C11.  A canvas created by Canvas::new(w, h) with w, h >= 1 holds        *)
(* exactly w * h cells, and before any write_pixel every pixel_at(x, y)    *)
(* with x < w and y < h returns black.                                     *)
(***************************************************************************)
C11_FreshCanvasBlack ==
    (Sized /\ writes = 0) =>
        /\ Len(canvas.data) = canvas.width * canvas.height
        /\ \A i \in 1..Len(canvas.data) : canvas.data[i] = Black
        /\ (/\ call.op = "pixel_at"
            /\ call.x < canvas.width /\ call.y < canvas.height) =>
               /\ ~call.panic
               /\ call.ret = Black

C11_Witness ==
    /\ writes = 0 /\ canvas.live /\ canvas.width = 2 /\ canvas.height = 2
    /\ call.op = "pixel_at" /\ call.x = 1 /\ call.y = 1
    /\ ~call.panic /\ call.ret = Black

(***************************************************************************)
(* C12.  Read after write: when every write_pixel so far was in range,     *)
(* pixel_at(x, y) of a cell that was written returns the colour of the     *)
(* most recent write_pixel to (x, y), and so does every written cell hold  *)
(* it.                                                                     *)
(***************************************************************************)
C12_ReadAfterWrite ==
    (canvas.live /\ call.clean /\ ~call.panic) =>
        /\ \A x \in 0..(canvas.width - 1), y \in 0..(canvas.height - 1) :
              LET i == y * canvas.width + x + 1
              IN (i \in DOMAIN call.last /\ call.last[i] # <<>>) =>
                    Canvas_pixel_at(canvas, x, y) = call.last[i]
        /\ (/\ call.op = "pixel_at" /\ InRange(canvas, call.x, call.y)
            /\ call.y * canvas.width + call.x + 1 \in DOMAIN call.last
            /\ call.last[call.y * canvas.width + call.x + 1] # <<>>) =>
               call.ret = call.last[call.y * canvas.width + call.x + 1]

C12_Witness ==
    /\ canvas.live /\ canvas.width = 2 /\ canvas.height = 2
    /\ call.clean /\ writes = 3
    /\ call.op = "pixel_at" /\ call.x = 1 /\ call.y = 0 /\ ~call.panic
    /\ call.ret = TestC
    /\ call.last = <<Red, TestC, <<>>, <<>>>>

(***************************************************************************)
(* C13.  Over any sequence of reads on a PPMHeaderReader created by new,   *)
(* the states it is in are, in order, Magic, Width, Height, ColorScale,    *)
(* Finished: no move backward, no state twice, and none skipped on the way *)
(* to Finished; stated for reads with buffers of one byte or more.         *)
(***************************************************************************)
C13_EachStateOnce ==
    (hcall.op = "read" /\ ~hcall.empty /\ ~hcall.panic) =>
        LET path == <<"Magic">> \o hcall.visited
        IN /\ Len(path) <= Len(States)
           /\ \A i \in 1..Len(path) : path[i] = States[i]
           /\ hreader.state = "Finished" => path = States

(***************************************************************************)
(* C14.  Finished is absorbing: a read on a PPMHeaderReader whose state is *)
(* Finished, with a buffer of any size, returns 0 without panicking,       *)
(* leaves every byte of the buffer as it was and leaves state and written  *)
(* unchanged.                                                              *)
(***************************************************************************)
C14_FinishedAbsorbing ==
    [][hreader.state = "Finished" =>
          /\ hreader' = hreader
          /\ ~hcall'.panic
          /\ hcall'.ret = 0
          /\ hcall'.buf = FreshBuf(hcall'.len)
          /\ hcall'.steps = <<>>
          /\ hout' = hout]_vars

C14_Witness ==
    /\ hreader.state = "Finished" /\ hreader.written > 0
    /\ hcall.op = "read" /\ hcall.steps = <<>>
    /\ hcall.len > 0 /\ hcall.len < hreader.written
    /\ hcall.ret = 0 /\ hcall.buf = FreshBuf(hcall.len)

(***************************************************************************)
(* C15.  In a row whose raw buffer is longer than 70 characters the first  *)
(* newline stands where the raw buffer has its last space at a 0-based     *)
(* index <= 70: the first line is the longest prefix of whole tokens of at *)
(* most 70 characters, unaltered.  The 10x2 canvas of (1.0, 0.8, 0.6)      *)
(* becomes lines of 67, 51, 67 and 51 characters.                          *)
(***************************************************************************)
C15_FirstBreakAtLastSeparator ==
    Encoded =>
        LET raw == RawBody
            body == Body
            ends == RowEnds
        IN /\ \A y \in 1..canvas.height :
                 LET start == IF y = 1 THEN 0 ELSE ends[y - 1]
                     p == NextSep(body, start + 1, {NL}) - start - 1
                 IN ends[y] - start > LineLimit =>
                       /\ p <= LineLimit
                       /\ raw[start + p + 1] = SP
                       /\ \A q \in (p + 1)..LineLimit : raw[start + q + 1] # SP
                       /\ \A q \in 0..(p - 1) : body[start + q + 1] = raw[start + q + 1]
           /\ canvas = Filled(10, 2, <<Warm>>) =>
                 LET lines == Lines(body)
                 IN /\ Len(lines) = 4
                    /\ Len(lines[1]) = 67 /\ Len(lines[2]) = 51
                    /\ Len(lines[3]) = 67 /\ Len(lines[4]) = 51

\* A first line of exactly 70 characters.
C15_Witness ==
    /\ Encoded /\ canvas.height = 1
    /\ LET body == Body
       IN /\ Len(body) > LineLimit + 1
          /\ NextSep(body, 1, {NL}) = LineLimit + 1

(***************************************************************************)
(* C16.  A row whose raw buffer has at most 70 characters, the trailing    *)
(* space included, is emitted as one line: the raw buffer with its last    *)
(* byte, the trailing space, replaced by a newline and no other byte       *)
(* changed.                                                                *)
(***************************************************************************)
C16_ShortRowOneLine ==
    Encoded =>
        LET raw == RawBody
            body == Body
            ends == RowEnds
        IN \A y \in 1..canvas.height :
              LET start == IF y = 1 THEN 0 ELSE ends[y - 1]
              IN ends[y] - start <= LineLimit =>
                    /\ raw[ends[y]] = SP /\ body[ends[y]] = NL
                    /\ \A i \in (start + 1)..(ends[y] - 1) :
                          body[i] = raw[i] /\ body[i] # NL

\* A raw row of exactly 70 characters.
C16_Witness ==
    /\ Encoded /\ canvas.height = 1
    /\ Len(RawBody) = LineLimit
    /\ Lines(Body) = <<SubSeq(RawBody, 1, LineLimit - 1)>>

(***************************************************************************)
(* C17.  The backward scan for a separator ends without a panic and with a *)
(* separator found, in either build profile: every raw row longer than 70  *)
(* characters has a space at a 0-based index of 67 .. 70 (a channel token  *)
(* has at most three characters before its space), the scan replaces that  *)
(* space and never decrements nl_idx at 0; so the case of no separator at  *)
(* or before column 70 does not arise, and no byte of a row is dropped.    *)
(***************************************************************************)
C17_ScanFindsSeparator ==
    (ppm.status # "none" /\ canvas.width >= 1) =>
        LET rows == RowsEncoded(canvas, debug_assertions)
            body == Body
            ends == RowEnds
        IN \A y \in DOMAIN rows :
              LET row == rows[y]
              IN /\ ~row.panic
                 /\ Len(row.buf) = Len(row.raw)
                 /\ Len(row.raw) > LineLimit =>
                       /\ row.nl_idx \in (LineLimit - 3)..LineLimit
                       /\ row.raw[row.nl_idx + 1] = SP
                       /\ row.buf[row.nl_idx + 1] = NL
                       /\ Encoded =>
                             LET start == IF y = 1 THEN 0 ELSE ends[y - 1]
                             IN body[start + row.nl_idx + 1] = NL

\* A debug build scanning back over a three-character token.
C17_Witness ==
    /\ Encoded /\ debug_assertions /\ canvas.height >= 1
    /\ RowEnds[1] > LineLimit
    /\ NextSep(Body, 1, {NL}) = LineLimit - 2

(***************************************************************************)
(* C18.  An in-range write_pixel(x, y, c) does not panic and changes the   *)
(* cell (x, y) only; pixel_at changes nothing; and after any calls the     *)
(* canvas has the width and height it had before them and width * height   *)
(* cells.                                                                  *)
(***************************************************************************)
C18_WriteChangesOneCell ==
    /\ (call.op = "write_pixel" /\ InRange(call.before, call.x, call.y)) =>
          /\ ~call.panic
          /\ Len(canvas.data) = Len(call.before.data)
          /\ \A i \in 1..Len(canvas.data) :
                canvas.data[i] = IF i = call.y * canvas.width + call.x + 1
                                 THEN call.color
                                 ELSE call.before.data[i]
    /\ call.op = "pixel_at" => canvas = call.before
    /\ call.op \in {"write_pixel", "pixel_at"} =>
          /\ canvas.live
          /\ canvas.width = call.before.width
          /\ canvas.height = call.before.height
          /\ Len(canvas.data) = canvas.width * canvas.height

C18_Witness ==
    /\ canvas.live /\ canvas.width = 2 /\ canvas.height = 2
    /\ call.op = "write_pixel" /\ call.x = 1 /\ call.y = 1 /\ call.color = TestC
    /\ ~call.panic
    /\ call.before.data = <<Red, Black, Red, Black>>
    /\ canvas.data = <<Red, Black, Red, TestC>>

(***************************************************************************)
(* C19.  PPMHeaderReader never writes outside the caller's buffer: no read *)
(* panics on buf.len() - written, every copy of a read starts at offset    *)
(* written <= buf.len(), where the copy before it ended, and writes at     *)
(* most buf.len() - written bytes, and the bytes of the buffer after the   *)
(* last copy are as the caller passed them.                                *)
(***************************************************************************)
C19_WritesInsideBuffer ==
    hcall.op = "read" =>
        LET steps == hcall.steps
            end == IF steps = <<>> THEN 0 ELSE hreader.written
        IN /\ ~hcall.panic
           /\ Len(hcall.buf) = hcall.len
           /\ \A i \in 1..Len(steps) :
                 /\ steps[i].len = hcall.len
                 /\ steps[i].at <= steps[i].len
                 /\ steps[i].to_write <= steps[i].len - steps[i].at
                 /\ steps[i].at = IF i = 1 THEN 0
                                  ELSE steps[i - 1].at + steps[i - 1].to_write
           /\ steps # <<>> =>
                 end = steps[Len(steps)].at + steps[Len(steps)].to_write
           /\ \A j \in (end + 1)..hcall.len : hcall.buf[j] = 0
           /\ \A j \in 1..end : hcall.buf[j] = FullHeader[j]

\* A copy cut short by the end of the buffer.
C19_Witness ==
    /\ hcall.op = "read" /\ hcall.len = 5 /\ hreader.header.width = 100
    /\ Len(hcall.steps) = 3
    /\ hcall.steps[2] = [state |-> "Height", at |-> 3, to_write |-> 2, len |-> 5]
    /\ hcall.buf = <<80, 51, NL, 49, 48>>

(***************************************************************************)
(* C20.  The read cursor of a PPMReader is monotone and bounded: every     *)
(* read leaves 0 <= read <= inner_buf.len(), advances read by the number   *)
(* of bytes it copied, which is the smaller of the bytes remaining and the *)
(* buffer's size and are the bytes of inner_buf at the old cursor, leaves  *)
(* inner_buf as it was, and at read = inner_buf.len() returns 0 and        *)
(* touches nothing.                                                        *)
(***************************************************************************)
C20_CursorMonotone ==
    [][ppm.status = "ok" =>
          LET n == Len(ppm.inner_buf)
              copied == ppm'.read - ppm.read
          IN /\ ppm'.inner_buf = ppm.inner_buf
             /\ ppm'.status = "ok"
             /\ 0 <= ppm.read /\ ppm.read <= ppm'.read /\ ppm'.read <= n
             /\ copied = Min(n - ppm.read, rcall'.len)
             /\ \A i \in 1..rcall'.len :
                   rcall'.buf[i] = IF i <= copied THEN ppm.inner_buf[ppm.read + i]
                                   ELSE 0
             /\ ppm.read = n =>
                   /\ rcall'.ret = 0
                   /\ ppm' = ppm
                   /\ rout' = rout]_vars

\* A read at the end of the stream, after reads that took it there.
C20_Witness ==
    /\ Encoded /\ rcall.op = "read"
    /\ ppm.read = Len(ppm.inner_buf) /\ ppm.read > ProbeSize
    /\ rcall.len = 3 /\ rcall.ret = 0 /\ rcall.buf = FreshBuf(3)

=============================================================================
